---- MODULE Spec2Model ----
(***************************************************************************)
(* File Organizer Bot (organizer.py): classification of files by rules and *)
(* extension map, date bucketing, de-duplicated moves, the move log and    *)
(* undo, the one-shot scan and the watch-mode handler.                     *)
(*                                                                         *)
(* Paths and file contents of the log are sequences of string tokens: a    *)
(* token stands for a run of characters of a path ("photo", ".jpg",        *)
(* " (1)"), and "/", TAB and NL are tokens of their own, so that writing   *)
(* the log and reading it back are modelled by what they do to the text.   *)
(***************************************************************************)
EXTENDS Integers, Sequences, FiniteSets, TLC

VARIABLES
    cfg,      \* the loaded configuration (dict of load_config)
    fs,       \* regular files: path -> [id, size, year, month]
    dirs,     \* existing directories (set of paths)
    log,      \* target_dir/.moves.log: [present, text]
    pc,       \* "idle" | "scan" | "move" | "watch"
    dry,      \* the --dry flag of the running invocation
    todo,     \* organize_once: entries of the listing not yet visited
    cur,      \* organize_once: <<p, dest>> about to be handed to move_file
    moved,    \* organize_once: the list `moved`
    count,    \* organize_once: the local `count`
    queue,    \* watch mode: created-events not yet dispatched
    out,      \* what the last finished invocation reported / returned
    created,  \* how many times each kind of file has appeared so far
    nops,     \* invocations started so far
    hist,     \* history of the moves, for the properties only
    probe     \* last classification asked of pick_category (SpecClassify)

vars == <<cfg, fs, dirs, log, pc, dry, todo, cur, moved, count, queue, out,
          created, nops, hist, probe>>

----------------------------------------------------------------------------
(* Bounds of the model *)

MaxFiles == 3
MaxOps == 3
MaxRules == 2

(* bytes per megabyte, size_mb *)
MB == 1048576

----------------------------------------------------------------------------
(* Text and paths *)

TAB == "\t"
NL == "\n"
SEP == "/"
MOVE_LOG == <<".moves.log">>

SOURCE_DIR == <<"S">>
TARGET_DIR == <<"T">>
CWD == <<>>

Max(S) == CHOOSE x \in S : \A y \in S : y <= x
Min(S) == CHOOSE x \in S : \A y \in S : x <= y

Positions(s, tok) == {i \in 1..Len(s) : s[i] = tok}
FirstPos(s, tok) == IF Positions(s, tok) = {} THEN 0 ELSE Min(Positions(s, tok))
LastPos(s, tok) == IF Positions(s, tok) = {} THEN 0 ELSE Max(Positions(s, tok))

(* Path(text): trailing separators are dropped *)
RECURSIVE PathOf(_)
PathOf(s) ==
    IF s # <<>> /\ s[Len(s)] = SEP THEN PathOf(SubSeq(s, 1, Len(s) - 1)) ELSE s

(* dir / name *)
Join(d, name) == IF d = CWD THEN name ELSE d \o <<SEP>> \o name

(* p.parent, p.name *)
Parent(p) == IF LastPos(p, SEP) = 0 THEN CWD ELSE SubSeq(p, 1, LastPos(p, SEP) - 1)
Name(p) == SubSeq(p, LastPos(p, SEP) + 1, Len(p))

(* tokens that begin with a dot *)
Suffixes == {".jpg", ".JPG", ".txt"}
DotTokens == Suffixes \cup {".hidden", ".moves.log"}

(* p.suffix, p.stem: the part of the name from its last dot, unless the
   name starts with that dot *)
HasSuffix(name) == Len(name) > 1 /\ name[Len(name)] \in Suffixes
Suffix(name) == IF HasSuffix(name) THEN <<name[Len(name)]>> ELSE <<>>
Stem(name) == IF HasSuffix(name) THEN SubSeq(name, 1, Len(name) - 1) ELSE name

(* str.lower() on the extension strings of the model *)
Lower(s) ==
    CASE s = "JPG" -> "jpg"
      [] s = ".JPG" -> ".jpg"
      [] s = "TXT" -> "txt"
      [] OTHER -> s

(* str.lstrip(".") on a lower-cased suffix *)
LStripDot(s) ==
    CASE s = ".jpg" -> "jpg"
      [] s = ".txt" -> "txt"
      [] OTHER -> s

(* p.suffix.lower().lstrip(".") *)
ExtOf(p) ==
    IF HasSuffix(Name(p)) THEN LStripDot(Lower(Name(p)[Len(Name(p))])) ELSE ""

(* re.compile(rx).search(name) for the patterns of the model *)
RegexSearch(rx, name) ==
    CASE rx = "^\\." -> name # <<>> /\ name[1] \in DotTokens
      [] rx = "photo" -> \E i \in 1..Len(name) : name[i] = "photo"
      [] OTHER -> FALSE

----------------------------------------------------------------------------
(* The filesystem *)

IsFile(p) == p \in DOMAIN fs
IsDir(p) == p \in dirs
Exists(p) == IsFile(p) \/ IsDir(p)

Restrict(f, S) == [x \in S |-> f[x]]
Put(f, k, v) == [x \in DOMAIN f \cup {k} |-> IF x = k THEN v ELSE f[x]]

(* the filesystem as a value, for the operations that change it in steps *)
Disk == [fs |-> fs, dirs |-> dirs]
ExistsIn(st, p) == p \in DOMAIN st.fs \/ p \in st.dirs

(* p and the directories above it *)
Ancestors(p) == {SubSeq(p, 1, i - 1) : i \in Positions(p, SEP)} \cup {p}

(* q is p or lies below p *)
Under(p, q) ==
    /\ Len(q) >= Len(p)
    /\ SubSeq(q, 1, Len(p)) = p
    /\ (Len(q) = Len(p) \/ q[Len(p) + 1] = SEP)

(* Path.mkdir(parents=True, exist_ok=True): raises when p or a directory
   above it is a regular file, and then creates nothing *)
Mkdir(st, p) ==
    IF \E a \in Ancestors(p) : a \in DOMAIN st.fs
    THEN [ok |-> FALSE, st |-> st]
    ELSE [ok |-> TRUE, st |-> [st EXCEPT !.dirs = st.dirs \cup Ancestors(p)]]

(* os.rename of the tree at src to the free path dst *)
Rebase(q, src, dst) == IF Under(src, q) THEN dst \o SubSeq(q, Len(src) + 1, Len(q)) ELSE q
RenameTree(st, src, dst) ==
    [fs |-> [q \in {Rebase(x, src, dst) : x \in DOMAIN st.fs} |->
                st.fs[CHOOSE x \in DOMAIN st.fs : Rebase(x, src, dst) = q]],
     dirs |-> {Rebase(x, src, dst) : x \in st.dirs}]

(* shutil.move(src, dst): into dst when dst is a directory; a regular file
   at the destination is replaced (os.rename); raises when src is missing,
   when the directory of the destination is missing, or when the place
   inside the directory dst is taken *)
RealDst(st, src, dst) == IF dst \in st.dirs THEN Join(dst, Name(src)) ELSE dst
ShutilMove(st, src, dst) ==
    LET real == RealDst(st, src, dst) IN
    IF \/ ~ExistsIn(st, src)
       \/ Parent(real) \notin st.dirs
       \/ (dst \in st.dirs /\ ExistsIn(st, real))
       \/ (src \in st.dirs /\ ExistsIn(st, real))
    THEN [ok |-> FALSE, st |-> st]
    ELSE IF src \in st.dirs
    THEN [ok |-> TRUE, st |-> RenameTree(st, src, real)]
    ELSE [ok |-> TRUE,
          st |-> [st EXCEPT !.fs = Put(Restrict(st.fs, DOMAIN st.fs \ {src}), real, st.fs[src])]]

----------------------------------------------------------------------------
(* Configuration and classification *)

Get(d, key, default) == IF key \in DOMAIN d THEN d[key] ELSE default

(* load_config: the extension lists are lower-cased *)
load_config(raw) ==
    IF "extensions" \in DOMAIN raw
    THEN [raw EXCEPT !.extensions =
            [i \in 1..Len(raw.extensions) |->
                <<raw.extensions[i][1], {Lower(x) : x \in raw.extensions[i][2]}>>]]
    ELSE raw

(* compile_rules: a missing or empty field becomes None ("" / {}) *)
compile_rules(c) ==
    LET raws == Get(c, "rules", <<>>) IN
    [i \in 1..Len(raws) |->
        [regex |-> Get(raws[i], "if_name_regex", ""),
         exts |-> {Lower(x) : x \in Get(raws[i], "if_ext_in", {})},
         min_mb |-> IF "min_size_mb" \in DOMAIN raws[i] THEN {raws[i].min_size_mb} ELSE {},
         max_mb |-> IF "max_size_mb" \in DOMAIN raws[i] THEN {raws[i].max_size_mb} ELSE {},
         to_category |-> Get(raws[i], "to_category", "")]]

(* size_mb, in bytes: 0 when the file is missing *)
size_mb(p) == IF IsFile(p) THEN fs[p].size ELSE 0

matches_rule(p, rule) ==
    IF rule.regex # "" /\ ~RegexSearch(rule.regex, Name(p)) THEN FALSE
    ELSE IF rule.exts # {} /\ ExtOf(p) \notin rule.exts THEN FALSE
    ELSE IF \E m \in rule.min_mb : size_mb(p) < m * MB THEN FALSE
    ELSE IF \E m \in rule.max_mb : size_mb(p) > m * MB THEN FALSE
    ELSE TRUE

(* the loop over the rules: the index of the rule that returns, 0 if none *)
RECURSIVE FirstRule(_, _, _)
FirstRule(p, rules, i) ==
    IF i > Len(rules) THEN 0
    ELSE IF matches_rule(p, rules[i]) /\ rules[i].to_category # "" THEN i
         ELSE FirstRule(p, rules, i + 1)

(* the loop over ext_map.items(): the index of the entry that returns *)
RECURSIVE FirstExt(_, _, _)
FirstExt(ext, ext_map, i) ==
    IF i > Len(ext_map) THEN 0
    ELSE IF ext \in ext_map[i][2] THEN i
         ELSE FirstExt(ext, ext_map, i + 1)

(* the extension map consulted before the rules *)
pick_category_ext_first(p, c, rules) ==
    LET ext_map == Get(c, "extensions", <<>>) IN
    IF FirstExt(ExtOf(p), ext_map, 1) # 0
    THEN ext_map[FirstExt(ExtOf(p), ext_map, 1)][1]
    ELSE IF FirstRule(p, rules, 1) # 0 THEN rules[FirstRule(p, rules, 1)].to_category
         ELSE Get(c, "unknown_category", "Other")

pick_category(p, c, rules) ==
    LET ext_map == Get(c, "extensions", <<>>) IN
    IF FirstRule(p, rules, 1) # 0 THEN rules[FirstRule(p, rules, 1)].to_category
    ELSE IF FirstExt(ExtOf(p), ext_map, 1) # 0
         THEN ext_map[FirstExt(ExtOf(p), ext_map, 1)][1]
         ELSE Get(c, "unknown_category", "Other")

----------------------------------------------------------------------------
(* Planning and moving *)

(* datetime.now() of the runs of the model *)
Now == [year |-> 2026, month |-> 11]

(* f"{dt:%Y}", f"{dt:%m}" *)
FmtYear(y) == ToString(y)
FmtMonth_unpadded(m) == ToString(m)
FmtMonth(m) == IF m < 10 THEN "0" \o ToString(m) ELSE ToString(m)

with_date_bucket(base, category, c, p) ==
    LET mode == Get(c, "bucket_mode", "none")
        dest == Join(base, <<category>>)
        dt == IF IsFile(p) THEN [year |-> fs[p].year, month |-> fs[p].month] ELSE Now
    IN  IF mode = "year" THEN Join(dest, <<FmtYear(dt.year)>>)
        ELSE IF mode = "year_month"
             THEN Join(Join(dest, <<FmtYear(dt.year)>>), <<FmtMonth(dt.month)>>)
             ELSE dest

(* parent / f"{stem} ({i}){suffix}" *)
Candidate(dest, i) ==
    Join(Parent(dest),
         Stem(Name(dest)) \o <<" (" \o ToString(i) \o ")">> \o Suffix(Name(dest)))

RECURSIVE DedupFrom(_, _, _)
DedupFrom(st, dest, i) ==
    IF ~ExistsIn(st, Candidate(dest, i)) THEN Candidate(dest, i)
    ELSE DedupFrom(st, dest, i + 1)

(* the destination taken as it is *)
dedup_path_none(st, dest) == dest

dedup_path(st, dest) == IF ~ExistsIn(st, dest) THEN dest ELSE DedupFrom(st, dest, 1)

(* no pattern is tried *)
should_exclude_never(p, c) == FALSE

should_exclude(p, c) ==
    LET patterns == Get(c, "exclude_regex", <<>>) IN
    \E i \in 1..Len(patterns) : RegexSearch(patterns[i], Name(p))

(* the planned destination, not the final path, goes into the record *)
move_file_planned(st, src, dest, isdry, mv) ==
    LET mk == Mkdir(st, Parent(dest))
        final == dedup_path(mk.st, dest)
        sh == ShutilMove(mk.st, src, final)
    IN  IF ~mk.ok THEN [ok |-> FALSE, st |-> st, mv |-> mv, final |-> dest, did |-> FALSE]
        ELSE IF isdry THEN [ok |-> TRUE, st |-> mk.st, mv |-> mv, final |-> final, did |-> FALSE]
        ELSE IF ~sh.ok THEN [ok |-> FALSE, st |-> mk.st, mv |-> mv, final |-> final, did |-> FALSE]
        ELSE [ok |-> TRUE, st |-> sh.st, mv |-> Append(mv, <<dest, src>>),
              final |-> final, did |-> TRUE]

(* the record is appended before the dry-run test *)
move_file_dry_records(st, src, dest, isdry, mv) ==
    LET mk == Mkdir(st, Parent(dest))
        final == dedup_path(mk.st, dest)
        sh == ShutilMove(mk.st, src, final)
    IN  IF ~mk.ok THEN [ok |-> FALSE, st |-> st, mv |-> mv, final |-> dest, did |-> FALSE]
        ELSE IF isdry THEN [ok |-> TRUE, st |-> mk.st, mv |-> Append(mv, <<final, src>>),
                            final |-> final, did |-> FALSE]
        ELSE IF ~sh.ok THEN [ok |-> FALSE, st |-> mk.st, mv |-> mv, final |-> final, did |-> FALSE]
        ELSE [ok |-> TRUE, st |-> sh.st, mv |-> Append(mv, <<final, src>>),
              final |-> final, did |-> TRUE]

(* move_file: ok = FALSE when mkdir or shutil.move raised; st is the
   filesystem it leaves, mv the list `moved` it leaves *)
move_file(st, src, dest, isdry, mv) ==
    LET mk == Mkdir(st, Parent(dest))
        final == dedup_path(mk.st, dest)
        sh == ShutilMove(mk.st, src, final)
    IN  IF ~mk.ok THEN [ok |-> FALSE, st |-> st, mv |-> mv, final |-> dest, did |-> FALSE]
        ELSE IF isdry THEN [ok |-> TRUE, st |-> mk.st, mv |-> mv, final |-> final, did |-> FALSE]
        ELSE IF ~sh.ok THEN [ok |-> FALSE, st |-> mk.st, mv |-> mv, final |-> final, did |-> FALSE]
        ELSE [ok |-> TRUE, st |-> sh.st, mv |-> Append(mv, <<final, src>>),
              final |-> final, did |-> TRUE]

----------------------------------------------------------------------------
(* The move log *)

LogPath == Join(TARGET_DIR, MOVE_LOG)

(* f"{newp}\t{oldp}\n" *)
LogLine(rec) == rec[1] \o <<TAB>> \o rec[2] \o <<NL>>

RECURSIVE LogText(_)
LogText(mv) == IF mv = <<>> THEN <<>> ELSE LogLine(Head(mv)) \o LogText(Tail(mv))

(* the file opened with "a": the lines are added to those of the old log *)
save_move_log_append(lg, mv) ==
    IF mv = <<>> THEN lg ELSE [present |-> TRUE, text |-> lg.text \o LogText(mv)]

(* the file is opened and written even for an empty list *)
save_move_log_always(lg, mv) == [present |-> TRUE, text |-> LogText(mv)]

(* save_move_log: the log after the call *)
save_move_log(lg, mv) ==
    IF mv = <<>> THEN lg ELSE [present |-> TRUE, text |-> LogText(mv)]

(* str.splitlines() *)
RECURSIVE SplitLines(_)
SplitLines(t) ==
    IF t = <<>> THEN <<>>
    ELSE IF FirstPos(t, NL) = 0 THEN <<t>>
    ELSE <<SubSeq(t, 1, FirstPos(t, NL) - 1)>>
            \o SplitLines(SubSeq(t, FirstPos(t, NL) + 1, Len(t)))

(* line.split("\t", 1) unpacked into two paths *)
Parses(line) == FirstPos(line, TAB) # 0
NewP(line) == PathOf(SubSeq(line, 1, FirstPos(line, TAB) - 1))
OldP(line) == PathOf(SubSeq(line, FirstPos(line, TAB) + 1, Len(line)))

(* one turn of the loop of undo_last; acc = [st, undone, trace] *)
undo_line(acc, line) ==
    IF ~Parses(line)
    THEN [acc EXCEPT !.trace = Append(@, [line |-> line, parsed |-> FALSE,
                                           existed |-> FALSE, back |-> FALSE, id |-> <<>>])]
    ELSE LET mk == Mkdir(acc.st, Parent(OldP(line)))
             ex == ExistsIn(mk.st, NewP(line))
             sh == ShutilMove(mk.st, NewP(line), OldP(line))
             fid == IF NewP(line) \in DOMAIN acc.st.fs THEN acc.st.fs[NewP(line)].id ELSE <<>>
         IN  IF ~mk.ok
             THEN [acc EXCEPT !.trace = Append(@, [line |-> line, parsed |-> TRUE,
                        existed |-> ExistsIn(acc.st, NewP(line)), back |-> FALSE, id |-> fid])]
             ELSE IF ex /\ sh.ok
             THEN [st |-> sh.st, undone |-> acc.undone + 1,
                   trace |-> Append(acc.trace, [line |-> line, parsed |-> TRUE,
                        existed |-> TRUE, back |-> TRUE, id |-> fid])]
             ELSE [acc EXCEPT !.st = mk.st,
                              !.trace = Append(@, [line |-> line, parsed |-> TRUE,
                        existed |-> ex, back |-> FALSE, id |-> fid])]

(* the loop ends at the first line that cannot be undone *)
RECURSIVE undo_lines_stop(_, _)
undo_lines_stop(acc, lines) ==
    IF lines = <<>> \/ ~Parses(Head(lines)) THEN acc
    ELSE undo_lines_stop(undo_line(acc, Head(lines)), Tail(lines))

RECURSIVE undo_lines(_, _)
undo_lines(acc, lines) ==
    IF lines = <<>> THEN acc ELSE undo_lines(undo_line(acc, Head(lines)), Tail(lines))

(* undo_last with the log present: the filesystem, the count and the
   per-line outcomes it ends with *)
undo_last(st, lg) ==
    undo_lines([st |-> st, undone |-> 0, trace |-> <<>>], SplitLines(lg.text))

(* no log file *)
NoLog == [present |-> FALSE, text |-> <<>>]

(* the log is left in place *)
unlink_skipped(lg) == lg

(* log.unlink(missing_ok=True) *)
unlink(lg) == NoLog

----------------------------------------------------------------------------
(* The configuration and the files of the runs *)

(* config.yaml as parsed by yaml.safe_load *)
RawConfig ==
    [source_dir |-> SOURCE_DIR,
     target_dir |-> TARGET_DIR,
     extensions |-> << <<"Images", {"JPG"}>> >>,
     rules |-> << [name |-> "large", min_size_mb |-> 10, to_category |-> "Large"] >>,
     exclude_regex |-> <<"^\\.">>,
     bucket_mode |-> "year"]

(* what appears in the filesystem while the program is used: files dropped
   into source_dir, a directory with a file in it, and a regular file that
   sits where the directory of a category would go *)
Kinds ==
    { [path |-> Join(SOURCE_DIR, <<"photo", ".jpg">>), dir |-> FALSE, size |-> 2 * MB,
       year |-> 2024, month |-> 3],
      [path |-> Join(SOURCE_DIR, <<"x", NL, "y">>), dir |-> FALSE, size |-> 0,
       year |-> 2024, month |-> 3],
      [path |-> Join(SOURCE_DIR, <<".hidden">>), dir |-> FALSE, size |-> 0,
       year |-> 2024, month |-> 3],
      [path |-> Join(SOURCE_DIR, <<"sub">>), dir |-> TRUE, size |-> 0,
       year |-> 2024, month |-> 3],
      [path |-> Join(TARGET_DIR, <<"Images">>), dir |-> FALSE, size |-> 0,
       year |-> 2024, month |-> 3] }

KindPaths == {k.path : k \in Kinds}

(* two files of source_dir of which one has the name dedup_path gives the
   other *)
PreviewKinds ==
    { [path |-> Join(SOURCE_DIR, <<"photo", ".jpg">>), dir |-> FALSE, size |-> 2 * MB,
       year |-> 2024, month |-> 3],
      [path |-> Join(SOURCE_DIR, <<"photo", " (1)", ".jpg">>), dir |-> FALSE, size |-> 2 * MB,
       year |-> 2024, month |-> 3] }

PreviewPaths == {k.path : k \in PreviewKinds}

RECURSIVE SumOver(_, _)
SumOver(f, S) ==
    IF S = {} THEN 0
    ELSE LET x == CHOOSE x \in S : TRUE IN f[x] + SumOver(f, S \ {x})

(* files created so far *)
NFiles == SumOver(created, DOMAIN created)

(* the file a created directory holds *)
Inner(d) == Join(d, <<"photo", ".jpg">>)

(* src.iterdir(): the immediate entries of a directory *)
Entries(d) == {p \in DOMAIN fs \cup dirs : p # CWD /\ Parent(p) = d}

NoOut == [op |-> "none", result |-> "none", count |-> 0]
NoProbe == [p |-> <<>>, cat |-> ""]

(* hist.since: the invocations that ended last with nothing in between;
   hist.run: the moves [id, src, final] of the latest non-dry one-shot run;
   hist.saved: the list last written to the log; hist.back, hist.text: the
   per-line outcomes and the log text of the undo that has just ended;
   hist.byrun, hist.bywatch: the files a non-dry one-shot run, a non-dry
   watch session, has relocated; hist.pre: the (source, final path) pairs
   and the count the latest dry one-shot run reported, "open" while it
   runs, "done" when it has returned and nothing but a one-shot run has
   happened since *)
NoPre == [state |-> "none", pairs |-> {}, count |-> 0]

HistInit ==
    [since |-> <<>>, run |-> <<>>, saved |-> <<>>, back |-> <<>>, text |-> <<>>,
     byrun |-> {}, bywatch |-> {}, pre |-> NoPre]

Since(tag) ==
    LET s == Append(hist.since, tag) IN
    IF Len(s) > 3 THEN SubSeq(s, Len(s) - 2, Len(s)) ELSE s

(* something happens after the last invocation ended *)
Fade ==
    [hist EXCEPT !.since = <<>>, !.back = <<>>, !.text = <<>>,
                 !.pre = IF @.state = "open" THEN [NoPre EXCEPT !.state = "spoiled"]
                         ELSE NoPre,
                 !.run = IF hist.since # <<>> /\ hist.since[Len(hist.since)] = "undo"
                         THEN <<>> ELSE @]

InitWith(paths) ==
    /\ cfg = load_config(RawConfig)
    /\ fs = <<>>
    /\ dirs = {CWD, SOURCE_DIR, TARGET_DIR}
    /\ log = NoLog
    /\ pc = "idle"
    /\ dry = FALSE
    /\ todo = {}
    /\ cur = <<>>
    /\ moved = <<>>
    /\ count = 0
    /\ queue = <<>>
    /\ out = NoOut
    /\ created = [p \in paths |-> 0]
    /\ nops = 0
    /\ hist = HistInit
    /\ probe = NoProbe

Init == InitWith(KindPaths)

(* the program used on a source_dir that receives the files of PreviewKinds *)
InitPreview == InitWith(PreviewPaths)

----------------------------------------------------------------------------
(* The environment *)

(* a file or a directory appears, between invocations or under the
   watcher, which queues a created-event for an immediate entry of
   source_dir; a file that appears during a scan is not in its listing and
   is as if it appeared after the scan *)
EnvCreate(k) ==
    /\ k.path \in DOMAIN created
    /\ NFiles < MaxFiles
    /\ pc \in {"idle", "watch", "watchdead"}
    /\ ~Exists(k.path)
    /\ Parent(k.path) \in dirs
    /\ created' = [created EXCEPT ![k.path] = @ + 1]
    /\ LET f == [id |-> <<k.path, created[k.path] + 1>>, size |-> k.size,
                 year |-> k.year, month |-> k.month]
       IN  IF k.dir
           THEN dirs' = dirs \cup {k.path} /\ fs' = Put(fs, Inner(k.path), f)
           ELSE dirs' = dirs /\ fs' = Put(fs, k.path, f)
    /\ queue' = IF pc \in {"watch", "watchdead"} /\ Parent(k.path) = SOURCE_DIR
                THEN Append(queue, [src_path |-> k.path, is_directory |-> k.dir])
                ELSE queue
    /\ hist' = Fade
    /\ UNCHANGED <<cfg, log, pc, dry, todo, cur, moved, count, out, nops, probe>>

(* a file is taken away by someone else: the one the program is about to
   move, between is_file() and shutil.move in a scan or before its event is
   dispatched in watch mode, or between invocations one of the target tree *)
EnvVanish(p) ==
    /\ IsFile(p)
    /\ \/ pc = "move" /\ p = cur[1]
       \/ pc = "watch" /\ queue # <<>> /\ p = Head(queue).src_path
       \/ pc = "idle" /\ Under(TARGET_DIR, p)
    /\ fs' = Restrict(fs, DOMAIN fs \ {p})
    /\ hist' = [Fade EXCEPT !.byrun = @ \ {fs[p].id}, !.bywatch = @ \ {fs[p].id}]
    /\ UNCHANGED <<cfg, dirs, log, pc, dry, todo, cur, moved, count, queue, out,
                   created, nops, probe>>

----------------------------------------------------------------------------
(* One-shot organization: organize_once *)

(* the category, then the destination, of one file *)
Plan(p) ==
    Join(with_date_bucket(TARGET_DIR, pick_category(p, cfg, compile_rules(cfg)), cfg, p),
         Name(p))

(* main without --undo and --watch: organize_once starts and lists source_dir *)
Start(d) ==
    /\ pc = "idle"
    /\ nops < MaxOps
    /\ nops' = nops + 1
    /\ pc' = "scan"
    /\ dry' = d
    /\ todo' = Entries(SOURCE_DIR)
    /\ cur' = <<>>
    /\ moved' = <<>>
    /\ count' = 0
    /\ out' = NoOut
    /\ hist' = [Fade EXCEPT !.run = IF d THEN @ ELSE <<>>,
                            !.pre = IF d THEN [NoPre EXCEPT !.state = "open"]
                                    ELSE IF hist.pre.state = "done" /\ out.op = "dry" THEN hist.pre
                                    ELSE NoPre]
    /\ UNCHANGED <<cfg, fs, dirs, log, queue, created, probe>>

(* one entry of the listing: skipped when it is no regular file or is
   excluded, else classified and planned *)
RunStep(p) ==
    /\ pc = "scan"
    /\ p \in todo
    /\ todo' = todo \ {p}
    /\ IF ~IsFile(p) \/ should_exclude(p, cfg)
       THEN UNCHANGED <<pc, cur>>
       ELSE pc' = "move" /\ cur' = <<p, Plan(p)>>
    /\ UNCHANGED <<cfg, fs, dirs, log, dry, moved, count, queue, out, created, nops,
                   hist, probe>>

(* move_file for the planned entry, then count += 1; an exception of
   move_file leaves organize_once and ends the program *)
RunMove ==
    /\ pc = "move"
    /\ LET r == move_file(Disk, cur[1], cur[2], dry, moved) IN
       /\ fs' = r.st.fs
       /\ dirs' = r.st.dirs
       /\ cur' = <<>>
       /\ IF r.ok
          THEN /\ pc' = "scan"
               /\ moved' = r.mv
               /\ count' = count + 1
               /\ UNCHANGED <<out, todo, dry>>
               /\ hist' = [hist EXCEPT
                    !.run = IF r.did
                            THEN Append(@, [id |-> fs[cur[1]].id, src |-> cur[1],
                                            final |-> r.final])
                            ELSE @,
                    !.byrun = IF r.did THEN @ \cup {fs[cur[1]].id} ELSE @,
                    !.pre = IF dry /\ @.state = "open"
                            THEN [@ EXCEPT !.pairs = @ \cup {<<cur[1], r.final>>}]
                            ELSE @]
          ELSE /\ pc' = "idle"
               /\ moved' = <<>>
               /\ count' = 0
               /\ todo' = {}
               /\ dry' = FALSE
               /\ out' = [op |-> IF dry THEN "dry" ELSE "run", result |-> "raised", count |-> 0]
               /\ hist' = [hist EXCEPT !.pre = IF dry THEN NoPre ELSE @]
    /\ UNCHANGED <<cfg, log, queue, created, nops, probe>>

(* the listing is exhausted: the log is saved unless dry, the count is
   returned and reported *)
RunFinish ==
    /\ pc = "scan"
    /\ todo = {}
    /\ pc' = "idle"
    /\ log' = IF dry THEN log ELSE save_move_log(log, moved)
    /\ out' = [op |-> IF dry THEN "dry" ELSE "run", result |-> "returned", count |-> count]
    /\ moved' = <<>>
    /\ count' = 0
    /\ dry' = FALSE
    /\ hist' = [hist EXCEPT
          !.saved = IF log' # log THEN moved ELSE @,
          !.since = IF ~dry /\ moved # <<>> THEN <<"run">> ELSE <<>>,
          !.pre = IF ~dry THEN @
                  ELSE IF @.state = "open" THEN [@ EXCEPT !.state = "done", !.count = count]
                  ELSE NoPre]
    /\ UNCHANGED <<cfg, fs, dirs, todo, cur, queue, created, nops, probe>>

----------------------------------------------------------------------------
(* Undo: main with --undo *)

Undo ==
    /\ pc = "idle"
    /\ nops < MaxOps
    /\ nops' = nops + 1
    /\ IF ~log.present
       THEN /\ out' = [op |-> "undo", result |-> "nothing", count |-> 0]
            /\ hist' = [hist EXCEPT !.back = <<>>, !.text = <<>>, !.since = Since("undo"),
                                    !.pre = NoPre]
            /\ UNCHANGED <<fs, dirs, log>>
       ELSE LET r == undo_last(Disk, log) IN
            /\ fs' = r.st.fs
            /\ dirs' = r.st.dirs
            /\ log' = unlink(log)
            /\ out' = [op |-> "undo", result |-> "undone", count |-> r.undone]
            /\ hist' = [hist EXCEPT !.back = r.trace, !.text = log.text,
                                    !.since = Since("undo"), !.pre = NoPre]
    /\ UNCHANGED <<cfg, pc, dry, todo, cur, moved, count, queue, created, probe>>

----------------------------------------------------------------------------
(* Watch mode: run_watch and _Handler *)

(* main with --watch: the observer is scheduled on source_dir and started *)
StartWatch(d) ==
    /\ pc = "idle"
    /\ nops < MaxOps
    /\ nops' = nops + 1
    /\ pc' = "watch"
    /\ dry' = d
    /\ queue' = <<>>
    /\ out' = NoOut
    /\ hist' = Fade
    /\ UNCHANGED <<cfg, fs, dirs, log, todo, cur, moved, count, created, probe>>

(* the handler persists the record of its move *)
OnCreated_saving ==
    /\ pc = "watch"
    /\ queue # <<>>
    /\ queue' = Tail(queue)
    /\ LET ev == Head(queue)
           p == ev.src_path
       IN  IF ev.is_directory \/ should_exclude(p, cfg)
           THEN UNCHANGED <<fs, dirs, pc, hist, log>>
           ELSE LET r == move_file(Disk, p, Plan(p), dry, <<>>) IN
                /\ fs' = r.st.fs
                /\ dirs' = r.st.dirs
                /\ pc' = IF r.ok THEN "watch" ELSE "watchdead"
                /\ log' = save_move_log(log, r.mv)
                /\ hist' = [hist EXCEPT
                     !.bywatch = IF r.ok /\ r.did THEN @ \cup {fs[p].id} ELSE @]
    /\ UNCHANGED <<cfg, dry, todo, cur, moved, count, out, created, nops, probe>>

(* _Handler.on_created for the oldest queued event; an exception of
   move_file ends the observer's dispatching thread *)
OnCreated ==
    /\ pc = "watch"
    /\ queue # <<>>
    /\ queue' = Tail(queue)
    /\ LET ev == Head(queue)
           p == ev.src_path
       IN  IF ev.is_directory \/ should_exclude(p, cfg)
           THEN UNCHANGED <<fs, dirs, pc, hist>>
           ELSE LET r == move_file(Disk, p, Plan(p), dry, <<>>) IN
                /\ fs' = r.st.fs
                /\ dirs' = r.st.dirs
                /\ pc' = IF r.ok THEN "watch" ELSE "watchdead"
                /\ hist' = [hist EXCEPT
                     !.bywatch = IF r.ok /\ r.did THEN @ \cup {fs[p].id} ELSE @]
    /\ UNCHANGED <<cfg, log, dry, todo, cur, moved, count, out, created, nops, probe>>

(* KeyboardInterrupt: obs.stop(), obs.join(), run_watch returns *)
StopWatch ==
    /\ pc \in {"watch", "watchdead"}
    /\ pc' = "idle"
    /\ queue' = <<>>
    /\ dry' = FALSE
    /\ out' = [op |-> "watch", result |-> "returned", count |-> 0]
    /\ UNCHANGED <<cfg, fs, dirs, log, todo, cur, moved, count, created, nops, hist, probe>>

----------------------------------------------------------------------------

Next ==
    \/ \E k \in Kinds \cup PreviewKinds : EnvCreate(k)
    \/ \E p \in DOMAIN fs : EnvVanish(p)
    \/ \E d \in BOOLEAN : Start(d)
    \/ \E p \in todo : RunStep(p)
    \/ RunMove
    \/ RunFinish
    \/ Undo
    \/ \E d \in BOOLEAN : StartWatch(d)
    \/ OnCreated
    \/ StopWatch

Spec == Init /\ [][Next]_vars

SpecPreview == InitPreview /\ [][Next]_vars

----------------------------------------------------------------------------
(* Classification alone: pick_category on one file under the rule lists,
   extension maps and unknown categories of a bounded set of configurations *)

RulePool ==
    { [name |-> "img", if_ext_in |-> {"JPG"}, to_category |-> "Images"],
      [name |-> "large", min_size_mb |-> 10, to_category |-> "Large"],
      [name |-> "small", max_size_mb |-> 2, to_category |-> "Small"],
      [name |-> "nocat", if_name_regex |-> "photo"],
      [name |-> "all", to_category |-> "All"],
      [name |-> "combo", if_name_regex |-> "photo", if_ext_in |-> {"jpg"},
       min_size_mb |-> 2, max_size_mb |-> 10, to_category |-> "Combo"],
      [name |-> "blank", if_name_regex |-> "", if_ext_in |-> {}, to_category |-> ""] }

RuleLists == UNION {[1..n -> RulePool] : n \in 0..MaxRules}

ExtMaps ==
    { <<>>,
      << <<"Images", {"jpg"}>>, <<"Docs", {"txt"}>> >>,
      << <<"Pics", {"JPG"}>>, <<"Images", {"jpg"}>> >>,
      << <<"Docs", {"txt"}>>, <<"Text", {"TXT", "txt"}>> >> }

ClassifyConfigs ==
    {[rules |-> r, extensions |-> e] : r \in RuleLists, e \in ExtMaps}
    \cup {[rules |-> r, extensions |-> e, unknown_category |-> "Misc"] :
            r \in RuleLists, e \in ExtMaps}
    \cup {[rules |-> r] : r \in RuleLists}

ProbeNames == {<<"photo", ".jpg">>, <<"photo", ".JPG">>, <<"note", ".txt">>, <<"a">>}
ProbeSizes == {2 * MB, 2 * MB + 1, 10 * MB - 1, 10 * MB}
ProbePaths == {Join(SOURCE_DIR, n) : n \in ProbeNames}

InitClassify ==
    /\ cfg \in {load_config(raw) : raw \in ClassifyConfigs}
    /\ \E p \in ProbePaths, sz \in ProbeSizes :
          fs = Put(<<>>, p, [id |-> <<p, 1>>, size |-> sz, year |-> 2024, month |-> 3])
    /\ dirs = {CWD, SOURCE_DIR, TARGET_DIR}
    /\ log = NoLog
    /\ pc = "idle"
    /\ dry = FALSE
    /\ todo = {}
    /\ cur = <<>>
    /\ moved = <<>>
    /\ count = 0
    /\ queue = <<>>
    /\ out = NoOut
    /\ created = [p \in KindPaths |-> 0]
    /\ nops = 0
    /\ hist = HistInit
    /\ probe = NoProbe

(* pick_category on a path of source_dir: the file that is there, or one
   that has vanished since it was listed *)
Classify(p) ==
    /\ probe' = [p |-> p, cat |-> pick_category(p, cfg, compile_rules(cfg))]
    /\ UNCHANGED <<cfg, fs, dirs, log, pc, dry, todo, cur, moved, count, queue, out,
                   created, nops, hist>>

NextClassify == \E p \in ProbePaths : Classify(p)

SpecClassify == InitClassify /\ [][NextClassify]_vars

----------------------------------------------------------------------------
(* Planning alone: the destination of one file under each bucket_mode, for
   modification times of a bounded set and for a file that has vanished *)

PlanModes == {"none", "year", "year_month"}
PlanNames == {<<"photo", ".jpg">>, <<"x", NL, "y">>, <<"a">>}
PlanYears == {1999, 2024}
PlanMonths == {1, 9, 10, 12}
PlanPaths == {Join(SOURCE_DIR, n) : n \in PlanNames}

PlanConfigs ==
    {[RawConfig EXCEPT !.bucket_mode = m] : m \in PlanModes}
    \cup {[k \in DOMAIN RawConfig \ {"bucket_mode"} |-> RawConfig[k]]}

InitPlan ==
    /\ cfg \in {load_config(raw) : raw \in PlanConfigs}
    /\ \E p \in PlanPaths, y \in PlanYears, m \in PlanMonths :
          fs = Put(<<>>, p, [id |-> <<p, 1>>, size |-> 2 * MB, year |-> y, month |-> m])
    /\ dirs = {CWD, SOURCE_DIR, TARGET_DIR}
    /\ log = NoLog
    /\ pc = "idle"
    /\ dry = FALSE
    /\ todo = {}
    /\ cur = <<>>
    /\ moved = <<>>
    /\ count = 0
    /\ queue = <<>>
    /\ out = NoOut
    /\ created = [p \in KindPaths |-> 0]
    /\ nops = 0
    /\ hist = HistInit
    /\ probe = NoProbe

(* cat, dest_dir and dest of organize_once and of on_created for a path of
   source_dir: the file that is there, or one that has vanished *)
PlanFile(p) ==
    /\ probe' = [p |-> p, cat |-> pick_category(p, cfg, compile_rules(cfg)), dest |-> Plan(p)]
    /\ UNCHANGED <<cfg, fs, dirs, log, pc, dry, todo, cur, moved, count, queue, out,
                   created, nops, hist>>

NextPlan == \E p \in PlanPaths : PlanFile(p)

SpecPlan == InitPlan /\ [][NextPlan]_vars

----------------------------------------------------------------------------
(* Deduplication alone: the loop of dedup_path, one existence test a step,
   over the destinations and the sets of existing candidates of a bounded
   set *)

MaxCollide == 4

DedupDests ==
    { Join(TARGET_DIR, <<"Images", SEP, "photo", ".jpg">>),
      Join(TARGET_DIR, <<"Other", SEP, "a">>),
      Join(TARGET_DIR, <<"Other", SEP, "x", NL, "y">>) }

(* dest and its first candidates *)
DedupNames(dest) == {dest} \cup {Candidate(dest, n) : n \in 1..(MaxCollide - 1)}

(* i stays what it is *)
NextIndex_stuck(i) == i

(* i += 1 *)
NextIndex(i) == i + 1

InitDedup ==
    /\ cfg = load_config(RawConfig)
    /\ \E dest \in DedupDests : \E E \in SUBSET DedupNames(dest) :
          /\ cur = <<dest>>
          /\ fs = [q \in E |-> [id |-> <<q, 1>>, size |-> 0, year |-> 2024, month |-> 3]]
          /\ dirs = {CWD, TARGET_DIR, Parent(dest)}
    /\ log = NoLog
    /\ pc = "dedup"
    /\ dry = FALSE
    /\ todo = {}
    /\ moved = <<>>
    /\ count = 0
    /\ queue = <<>>
    /\ out = NoOut
    /\ created = [p \in KindPaths |-> 0]
    /\ nops = 0
    /\ hist = HistInit
    /\ probe = NoProbe

(* one existence test of dedup_path: of dest first (count = 0), then of the
   candidate i = count; the first path that does not exist is returned *)
DedupCheck ==
    /\ pc = "dedup"
    /\ LET candidate == IF count = 0 THEN cur[1] ELSE Candidate(cur[1], count) IN
       IF ~Exists(candidate)
       THEN /\ pc' = "deduped"
            /\ probe' = [p |-> cur[1], cat |-> "", final |-> candidate]
            /\ count' = count
       ELSE /\ count' = NextIndex(count)
            /\ UNCHANGED <<pc, probe>>
    /\ UNCHANGED <<cfg, fs, dirs, log, dry, todo, cur, moved, queue, out, created, nops, hist>>

NextDedup == DedupCheck

(* the loop is the only thing the program does: it takes its next step *)
SpecDedup == InitDedup /\ [][NextDedup]_vars /\ WF_vars(NextDedup)

----------------------------------------------------------------------------
(* Watch mode step by step: the observer's dispatching thread takes the
   oldest event and runs on_created, whose shutil.move is a step of its
   own; the main thread waits in obs.join(1) until KeyboardInterrupt, then
   stops and joins the observer. cur holds the pipelines in flight. *)

WatchPaths == PreviewPaths \cup {Join(SOURCE_DIR, <<".hidden">>), Join(SOURCE_DIR, <<"sub">>)}

InitWatch ==
    /\ cfg = load_config(RawConfig)
    /\ fs = <<>>
    /\ dirs = {CWD, SOURCE_DIR, TARGET_DIR}
    /\ log = NoLog
    /\ pc = "watch"
    /\ dry \in BOOLEAN
    /\ todo = {}
    /\ cur = <<>>
    /\ moved = <<>>
    /\ count = 0
    /\ queue = <<>>
    /\ out = NoOut
    /\ created = [p \in WatchPaths |-> 0]
    /\ nops = 1
    /\ hist = HistInit
    /\ probe = NoProbe

(* handlers run wherever an event is waiting *)
CanDispatch_always(flights) == TRUE

(* one Observer with one handler: its thread calls on_created for the
   next event when the call for the one before has returned *)
CanDispatch(flights) == flights = <<>>

(* on_created up to dedup_path for the oldest event: an exception of mkdir
   ends the dispatching thread; a dry handler prints and returns *)
Dispatch ==
    /\ pc = "watch"
    /\ queue # <<>>
    /\ CanDispatch(cur)
    /\ queue' = Tail(queue)
    /\ LET ev == Head(queue)
           p == ev.src_path
       IN  IF ev.is_directory \/ should_exclude(p, cfg)
           THEN UNCHANGED <<dirs, pc, cur>>
           ELSE \E dest \in {Plan(p)} : \E mk \in {Mkdir(Disk, Parent(dest))} :
                /\ dirs' = mk.st.dirs
                /\ pc' = IF mk.ok THEN "watch" ELSE "watchdead"
                /\ cur' = IF mk.ok /\ ~dry
                          THEN Append(cur, [src |-> p, final |-> dedup_path(mk.st, dest)])
                          ELSE cur
    /\ UNCHANGED <<cfg, fs, log, dry, todo, moved, count, out, created, nops, hist, probe>>

(* shutil.move of a pipeline in flight, after which on_created returns; an
   exception ends the dispatching thread *)
HandlerMove ==
    /\ pc \in {"watch", "stopping"}
    /\ \E i \in 1..Len(cur) :
          LET sh == ShutilMove(Disk, cur[i].src, cur[i].final) IN
          /\ fs' = sh.st.fs
          /\ dirs' = sh.st.dirs
          /\ cur' = SubSeq(cur, 1, i - 1) \o SubSeq(cur, i + 1, Len(cur))
          /\ pc' = IF sh.ok \/ pc = "stopping" THEN pc ELSE "watchdead"
          /\ hist' = [hist EXCEPT
                !.bywatch = IF sh.ok THEN @ \cup {fs[cur[i].src].id} ELSE @]
    /\ UNCHANGED <<cfg, log, dry, todo, moved, count, queue, out, created, nops, probe>>

(* KeyboardInterrupt in the loop of run_watch: obs.stop() *)
Interrupt ==
    /\ pc \in {"watch", "watchdead"}
    /\ pc' = "stopping"
    /\ UNCHANGED <<cfg, fs, dirs, log, dry, todo, cur, moved, count, queue, out, created,
                   nops, hist, probe>>

(* obs.join() returns when the dispatching thread has ended, which it does
   after the handler it is in; run_watch returns *)
ObsJoin ==
    /\ pc = "stopping"
    /\ cur = <<>>
    /\ pc' = "idle"
    /\ queue' = <<>>
    /\ dry' = FALSE
    /\ out' = [op |-> "watch", result |-> "returned", count |-> 0]
    /\ UNCHANGED <<cfg, fs, dirs, log, todo, cur, moved, count, created, nops, hist, probe>>

NextWatch ==
    \/ \E k \in Kinds \cup PreviewKinds : EnvCreate(k)
    \/ \E p \in DOMAIN fs : EnvVanish(p)
    \/ Dispatch
    \/ HandlerMove
    \/ Interrupt
    \/ ObsJoin

(* the threads of the program run; files and the interrupt come when they
   come *)
SpecWatch ==
    InitWatch /\ [][NextWatch]_vars
    /\ WF_vars(Dispatch) /\ WF_vars(HandlerMove) /\ WF_vars(ObsJoin)

----------------------------------------------------------------------------
(* Properties of the classification *)

(* the size of a file in bytes, 0 for a file that is not there *)
SizeOf(p) == IF p \in DOMAIN fs THEN fs[p].size ELSE 0

(* every predicate the rule of the configuration specifies holds of p *)
RuleHolds(p, raw) ==
    /\ Get(raw, "if_name_regex", "") # "" => RegexSearch(raw.if_name_regex, Name(p))
    /\ Get(raw, "if_ext_in", {}) # {} => \E x \in raw.if_ext_in : Lower(x) = ExtOf(p)
    /\ "min_size_mb" \in DOMAIN raw => raw.min_size_mb * MB <= SizeOf(p)
    /\ "max_size_mb" \in DOMAIN raw => SizeOf(p) <= raw.max_size_mb * MB

(* the rules that decide p, and the entries of the extension map that hold
   its extension *)
Deciding(p) ==
    {i \in 1..Len(Get(cfg, "rules", <<>>)) :
        /\ Get(cfg.rules[i], "to_category", "") # ""
        /\ RuleHolds(p, cfg.rules[i])}
Holding(p) ==
    {j \in 1..Len(Get(cfg, "extensions", <<>>)) : ExtOf(p) \in cfg.extensions[j][2]}

(* C9: pick_category returns the category of the first rule, in configured
   order, that has a non-empty category and all of whose specified
   predicates hold (regex search on the name, case-insensitive extension
   membership, min <= size <= max inclusive); failing that the first
   category of the extension map whose set holds the lower-cased extension;
   failing that the unknown category, "Other" by default. *)
C9_Classification ==
    probe # NoProbe =>
        IF Deciding(probe.p) # {}
        THEN probe.cat = cfg.rules[Min(Deciding(probe.p))].to_category
        ELSE IF Holding(probe.p) # {}
             THEN probe.cat = cfg.extensions[Min(Holding(probe.p))][1]
             ELSE probe.cat = Get(cfg, "unknown_category", "Other")

(* a second rule decides, after a first that matches without a category,
   although the extension map names another category for the extension *)
C9_Witness ==
    /\ probe # NoProbe
    /\ Deciding(probe.p) # {}
    /\ Min(Deciding(probe.p)) = 2
    /\ RuleHolds(probe.p, cfg.rules[1])
    /\ Holding(probe.p) # {}
    /\ cfg.extensions[Min(Holding(probe.p))][1] # probe.cat
    /\ probe.cat = cfg.rules[2].to_category

----------------------------------------------------------------------------
(* Properties of the runs, the log and undo *)

(* the steps of the program, told from those of the environment *)
ScanStep == pc = "scan" /\ todo' # todo
MoveStep == pc = "move" /\ cur' # cur
EventStep == pc = "watch" /\ queue # <<>> /\ queue' = Tail(queue)
UndoStep == nops' = nops + 1 /\ out'.op = "undo"

Last(s) == s[Len(s)]
InTarget(q) == Under(TARGET_DIR, q)
InSource(q) == Under(SOURCE_DIR, q) /\ q # SOURCE_DIR

(* every file the latest non-dry scan moved is at its original path again
   and none is at its final path *)
Restored ==
    \A i \in 1..Len(hist.run) :
        /\ hist.run[i].src \in DOMAIN fs
        /\ fs[hist.run[i].src].id = hist.run[i].id
        /\ hist.run[i].final \notin DOMAIN fs

(* C1: a non-dry one-shot run that moved at least one file, followed by
   undo with no change of the filesystem in between, puts every moved file
   back at its original path, leaves none at its final path and removes the
   log; a second undo right after reports nothing to undo and moves no file. *)
C1_RoundTrip ==
    /\ hist.since = <<"run", "undo">> => Restored /\ ~log.present
    /\ hist.since = <<"run", "undo", "undo">> => out.result = "nothing" /\ hist.back = <<>>

(* the free path dedup is to find: dest itself, or the candidate of the
   smallest N >= 1 that does not exist *)
FreeIndices(dest) ==
    {n \in 1..(Cardinality(DOMAIN fs) + Cardinality(dirs) + 1) : ~Exists(Candidate(dest, n))}
ExpectedFinal(dest) ==
    IF ~Exists(dest) THEN dest ELSE Candidate(dest, Min(FreeIndices(dest)))

(* the step moved the file at src to the free path of dest and kept every
   file of the target tree *)
MovedTo(src, dest) ==
    /\ ExpectedFinal(dest) \notin DOMAIN fs
    /\ ExpectedFinal(dest) \in DOMAIN fs'
    /\ fs'[ExpectedFinal(dest)] = fs[src]
    /\ src \notin DOMAIN fs'
    /\ \A q \in DOMAIN fs : InTarget(q) => q \in DOMAIN fs' /\ fs'[q] = fs[q]

(* C2: a non-dry move puts the file at its planned destination when that
   path does not exist, and else at "<stem> (N)<ext>" in the same directory
   for the smallest N >= 1 whose path does not exist; every file already in
   the target tree stays where it is with its content, in scans and in
   watch mode alike. *)
C2_NoOverwrite ==
    [][ /\ (MoveStep /\ ~dry /\ pc' = "scan") =>
              /\ MovedTo(cur[1], cur[2])
              /\ moved' = Append(moved, <<ExpectedFinal(cur[2]), cur[1]>>)
        /\ (EventStep /\ ~dry /\ fs' # fs) =>
              MovedTo(Head(queue).src_path, Plan(Head(queue).src_path))
      ]_vars

(* three files named photo.jpg were moved into one directory: the second
   and the third got the indices 1 and 2 *)
C2_Witness ==
    LET d == Join(Join(TARGET_DIR, <<"Images">>), <<"2024">>)
        a == Join(d, <<"photo", ".jpg">>)
        b == Join(d, <<"photo", " (1)", ".jpg">>)
        c == Join(d, <<"photo", " (2)", ".jpg">>)
    IN  /\ {a, b, c} \subseteq DOMAIN fs
        /\ fs[a].id[2] = 1 /\ fs[b].id[2] = 2 /\ fs[c].id[2] = 3

(* C3: a one-shot scan in which the move of one file fails still finishes
   and returns its processed count. *)
C3_SkipAndContinue ==
    out.op \in {"run", "dry"} => out.result = "returned"

(* C4: a step of a dry scan or of a dry watch handler leaves the files,
   the directories and the log as they were. *)
C4_DryRunMutatesNothing ==
    [][ (dry /\ (ScanStep \/ MoveStep \/ EventStep)) =>
            fs' = fs /\ dirs' = dirs /\ log' = log ]_vars

(* C5 as claimed: every file an undo moves back was relocated by the most
   recent non-dry one-shot run, whatever that run moved and however it ended. *)
C5_LastRunOnly ==
    \A i \in 1..Len(hist.back) :
        hist.back[i].back => \E j \in 1..Len(hist.run) : hist.run[j].id = hist.back[i].id

(* C5 amended: the lines an undo goes through are exactly the lines of the
   log as it was last written, that is by the most recent non-dry one-shot
   run that completed having moved at least one file; every file it moves
   back is taken from the final path one of these lines gives. *)
C5_LastSavedLog ==
    hist.text # <<>> =>
        /\ [i \in 1..Len(hist.back) |-> hist.back[i].line] = SplitLines(LogText(hist.saved))
        /\ \A i \in 1..Len(hist.back) :
              hist.back[i].back =>
                 \E j \in 1..Len(hist.saved) : LogLine(hist.saved[j]) = hist.back[i].line \o <<NL>>

(* an undo moved a file back while a file of an earlier move, of which the
   log last written has no record, stays in the target tree *)
C5_Witness ==
    /\ \E i \in 1..Len(hist.back) : hist.back[i].back
    /\ \E q \in DOMAIN fs :
          /\ InTarget(q) /\ Len(q) > 3
          /\ \A j \in 1..Len(hist.saved) : hist.saved[j][1] # q

(* the text of one record per move of the latest non-dry scan, in order *)
RECURSIVE RunText(_)
RunText(r) ==
    IF r = <<>> THEN <<>>
    ELSE Head(r).final \o <<TAB>> \o Head(r).src \o <<NL>> \o RunText(Tail(r))

(* C6: when a non-dry one-shot run that moved at least one file completes,
   the log holds one record "final TAB original NL" per move of that run, in
   the order of the moves, with final the path the file now occupies, and
   nothing of an earlier log. *)
C6_LogContent ==
    hist.since = <<"run">> =>
        /\ log.present
        /\ log.text = RunText(hist.run)
        /\ \A i \in 1..Len(hist.run) :
              /\ hist.run[i].final \in DOMAIN fs
              /\ fs[hist.run[i].final].id = hist.run[i].id

(* a completed run of two moves wrote its log over that of an earlier run *)
C6_Witness ==
    /\ hist.since = <<"run">>
    /\ Len(hist.run) = 2
    /\ nops >= 2
    /\ \E q \in DOMAIN fs : InTarget(q) /\ Len(q) > 3 /\
          \A i \in 1..Len(hist.run) : hist.run[i].final # q

(* C7: undo goes through every line of the log in the order written; a
   line that does not parse or whose final path does not exist is skipped
   and the following lines are still processed; a file is moved back exactly
   for the lines whose final path existed when they were processed, and the
   reported count is the number of these lines. *)
C7_UndoTolerant ==
    hist.text # <<>> =>
        /\ [i \in 1..Len(hist.back) |-> hist.back[i].line] = SplitLines(hist.text)
        /\ \A i \in 1..Len(hist.back) :
              hist.back[i].back <=> (hist.back[i].parsed /\ hist.back[i].existed)
        /\ out.count = Cardinality({i \in 1..Len(hist.back) : hist.back[i].back})
        /\ \A i \in 1..Len(hist.back) :
              (hist.back[i].back /\ \A j \in (i + 1)..Len(hist.back) : ~hist.back[j].back) =>
                 /\ OldP(hist.back[i].line) \in DOMAIN fs
                 /\ fs[OldP(hist.back[i].line)].id = hist.back[i].id

(* an undo met a line that does not parse and a line whose final path does
   not exist, and moved a file back for a later line *)
C7_Witness ==
    \E i, j, k \in 1..Len(hist.back) :
        /\ i < k /\ j < k
        /\ ~hist.back[i].parsed
        /\ hist.back[j].parsed /\ ~hist.back[j].existed
        /\ hist.back[k].back

(* C8: an undo that finds the log leaves no log behind, whatever happened
   on the lines; an undo that finds no log reports that there is nothing to
   undo and changes no file, no directory and no log; the second of two
   undos in a row moves nothing back. *)
C8_UndoConsumesLog ==
    [][ UndoStep =>
          /\ log.present => ~log'.present
          /\ ~log.present =>
                out'.result = "nothing" /\ fs' = fs /\ dirs' = dirs /\ log' = log
          /\ (hist.since # <<>> /\ Last(hist.since) = "undo") =>
                \A i \in 1..Len(hist'.back) : ~hist'.back[i].back
      ]_vars

(* a second undo in a row found nothing to undo after the first had moved
   a file back to source_dir *)
C8_Witness ==
    /\ hist.since = <<"run", "undo", "undo">>
    /\ out.result = "nothing"
    /\ \E i \in 1..Len(hist.run) : hist.run[i].src \in DOMAIN fs

(* an entry the configuration excludes: a pattern of exclude_regex is found
   in its name *)
Excluded(q) ==
    \E i \in 1..Len(Get(cfg, "exclude_regex", <<>>)) :
        RegexSearch(cfg.exclude_regex[i], Name(q))

(* what a scan or the watcher must leave alone: directories, excluded
   files, and whatever lies deeper than the immediate entries of source_dir *)
Inert(q) == InSource(q) /\ (q \in dirs \/ Excluded(q) \/ Parent(q) # SOURCE_DIR)

(* C10: in a one-shot scan and in watch mode an excluded entry and a
   directory stay at their path, are not handed to move_file, are in no
   record of the run and are not counted; only the immediate entries of
   source_dir are listed. *)
C10_ExcludedUntouched ==
    [][ /\ (ScanStep \/ MoveStep \/ EventStep) =>
              /\ \A q \in DOMAIN fs : Inert(q) => q \in DOMAIN fs' /\ fs'[q] = fs[q]
              /\ \A q \in dirs : q \in dirs'
        /\ ScanStep =>
              /\ \A q \in todo : Parent(q) = SOURCE_DIR
              /\ \A q \in todo \ todo' :
                    Inert(q) => pc' = "scan" /\ count' = count /\ moved' = moved /\ fs' = fs
        /\ MoveStep =>
              /\ ~Inert(cur[1])
              /\ count' <= count + 1
              /\ \A i \in 1..Len(moved') : ~Inert(moved'[i][2])
        /\ (EventStep /\ (Head(queue).is_directory \/ Excluded(Head(queue).src_path))) =>
              fs' = fs /\ dirs' = dirs
      ]_vars

(* a scan counted and moved one file and left the excluded file, the
   directory and the file inside the directory where they were *)
C10_Witness ==
    /\ out.op = "run" /\ out.result = "returned" /\ out.count = 1
    /\ Join(SOURCE_DIR, <<".hidden">>) \in DOMAIN fs
    /\ Join(SOURCE_DIR, <<"sub">>) \in dirs
    /\ Inner(Join(SOURCE_DIR, <<"sub">>)) \in DOMAIN fs
    /\ \E q \in DOMAIN fs : InTarget(q) /\ Len(q) > 3

(* C11: a non-dry one-shot run that moves no file neither creates nor
   overwrites nor deletes the log: from its start to its end, as long as its
   list of moves is empty, the log is what it was. *)
C11_EmptyPersistNoOp ==
    [][ (pc \in {"scan", "move"} /\ ~dry /\ moved = <<>>) => log' = log ]_vars

(* a non-dry run returned having moved nothing and the log of an earlier
   run is still there *)
C11_Witness ==
    /\ pc = "idle"
    /\ out = [op |-> "run", result |-> "returned", count |-> 0]
    /\ log.present
    /\ log.text = LogText(hist.saved)

(* C12: once a non-dry one-shot run is over, however it ended, every file
   it relocated has its record in the log. *)
C12_MovesLogged ==
    (pc = "idle" /\ out.op = "run" /\ hist.run # <<>>) =>
        log.present /\ log.text = RunText(hist.run)

(* a step of watch mode, from the start of the observer to its end *)
WatchStep == pc \in {"watch", "watchdead"} \/ pc' \in {"watch", "watchdead"}

(* the files whose only relocation was done by watch mode *)
WatchOnly == hist.bywatch \ hist.byrun

(* C14: no step of watch mode, dry or not, creates, modifies or deletes the
   log, and an undo moves back no file whose only relocation was done by
   watch mode. *)
C14_WatchNeverUndone ==
    [][ /\ WatchStep => log' = log
        /\ UndoStep =>
             \A i \in 1..Len(hist'.back) :
                hist'.back[i].back => hist'.back[i].id \notin WatchOnly ]_vars

(* C14 as amended: no step of watch mode changes the log, so an undo acts
   on the text the latest saving one-shot run wrote, and every file it
   moves back is the one found at the final path of a line of that text,
   whichever mode put it there. *)
C14_WatchLeavesLog ==
    [][ /\ WatchStep => log' = log
        /\ (UndoStep /\ log.present) =>
             /\ log.text = LogText(hist.saved)
             /\ \A i \in 1..Len(hist'.back) :
                  hist'.back[i].back =>
                     /\ \E j \in 1..Len(hist.saved) :
                           LogLine(hist.saved[j]) = hist'.back[i].line \o <<NL>>
                     /\ NewP(hist'.back[i].line) \in DOMAIN fs
                     /\ fs[NewP(hist'.back[i].line)].id = hist'.back[i].id ]_vars

(* an undo has moved back a file that only watch mode had relocated *)
C14_Witness ==
    /\ out.op = "undo"
    /\ \E i \in 1..Len(hist.back) : hist.back[i].back /\ hist.back[i].id \in WatchOnly

(* the scan ends, by returning or by an exception *)
EndStep == pc \in {"scan", "move"} /\ pc' = "idle"

(* what an undo would do in the state before, and after, the step *)
UndoBefore == undo_last(Disk, log)
UndoAfter == undo_last([fs |-> fs', dirs |-> dirs'], log')

(* C15: no step of a dry one-shot run records a move or changes the log,
   and an undo issued after the step moves back the same files, line by
   line, with the same count, as an undo issued before it (which is to be
   shown for the steps that change the disk, by creating directories). *)
C15_DryKeepsUndoState ==
    [][ (dry /\ (ScanStep \/ MoveStep \/ EndStep)) =>
            /\ moved = <<>> /\ moved' = <<>>
            /\ log' = log
            /\ (log.present /\ <<fs', dirs'>> # <<fs, dirs>>) =>
                 /\ UndoAfter.undone = UndoBefore.undone
                 /\ UndoAfter.trace = UndoBefore.trace
                 /\ UndoAfter.st.fs = UndoBefore.st.fs ]_vars

(* a dry run has reported a file and returned while the log of an earlier
   run, with a file an undo moves back, is in place *)
C15_Witness ==
    /\ pc = "idle"
    /\ out.op = "dry" /\ out.result = "returned" /\ out.count >= 1
    /\ log.present
    /\ undo_last(Disk, log).undone >= 1

(* the files of the disk, whatever their path *)
FileIds == {fs[q].id : q \in DOMAIN fs}

(* C19: no step of the program, a scan, a watch event or an undo,
   overwrites or deletes a regular file: the files before the step are the
   files after it. *)
C19_NoFileLost ==
    [][ (ScanStep \/ MoveStep \/ EventStep \/ UndoStep) =>
            {fs'[q].id : q \in DOMAIN fs'} = FileIds ]_vars

(* C20: when a non-dry one-shot run follows a dry one with nothing in
   between, so that both start from the same files and configuration, the
   (source, final path) pairs of its moves are the pairs the dry run
   reported, it returns as the dry run did, and with the same count. *)
C20_PreviewFidelity ==
    (pc = "idle" /\ out.op = "run" /\ hist.pre.state = "done") =>
        /\ out.result = "returned"
        /\ {<<hist.run[i].src, hist.run[i].final>> : i \in 1..Len(hist.run)} = hist.pre.pairs
        /\ out.count = hist.pre.count

(* the four digits of a year, the two digits of a month *)
Digit(d) == <<"0", "1", "2", "3", "4", "5", "6", "7", "8", "9">>[d + 1]
YYYY(y) == Digit(y \div 1000) \o Digit((y \div 100) % 10) \o Digit((y \div 10) % 10) \o Digit(y % 10)
MM(m) == Digit(m \div 10) \o Digit(m % 10)

(* the modification time of the planned file, the current time when it is
   not there *)
PlanTime == IF probe.p \in DOMAIN fs THEN fs[probe.p] ELSE Now

(* C16: the planned destination is target_dir/category/<name> when
   bucket_mode is none (or not set), target_dir/category/YYYY/<name> when it
   is year and target_dir/category/YYYY/MM/<name> when it is year_month,
   with the year and month of the modification time, or of the current
   time for a file that is not there; the base name is the file's. *)
C16_DestinationLayout ==
    probe.p # <<>> =>
        LET mode == IF "bucket_mode" \in DOMAIN cfg THEN cfg.bucket_mode ELSE "none"
            head == TARGET_DIR \o <<SEP, probe.cat, SEP>>
            name == Name(probe.p)
        IN  /\ mode = "none" => probe.dest = head \o name
            /\ mode = "year" => probe.dest = head \o <<YYYY(PlanTime.year), SEP>> \o name
            /\ mode = "year_month" =>
                  probe.dest = head \o <<YYYY(PlanTime.year), SEP, MM(PlanTime.month), SEP>> \o name
            /\ Name(probe.dest) = name

(* a file modified in a month of one digit is planned under year_month *)
C16_Witness ==
    /\ probe.p \in DOMAIN fs
    /\ "bucket_mode" \in DOMAIN cfg /\ cfg.bucket_mode = "year_month"
    /\ fs[probe.p].month < 10
    /\ Len(probe.dest) = Len(TARGET_DIR) + 7 + Len(Name(probe.p))

(* C18: dedup_path returns, after at most one existence test for each
   existing path and one more, and the path it returns does not exist and
   is the first of dest, "stem (1)suffix", "stem (2)suffix", ... that does
   not. *)
C18_DedupTerminates ==
    /\ <>(pc = "deduped")
    /\ [](pc = "deduped" =>
            /\ ~Exists(probe.final)
            /\ count <= Cardinality(DOMAIN fs)
            /\ probe.final = (IF count = 0 THEN probe.p ELSE Candidate(probe.p, count))
            /\ probe.p \in DOMAIN fs => \A n \in 1..(count - 1) : Exists(Candidate(probe.p, n))
            /\ probe.final = dedup_path(Disk, probe.p))

(* dest and every candidate below the last one exist: the loop has gone
   through all of them *)
C18_Witness ==
    /\ pc = "deduped"
    /\ count = MaxCollide
    /\ Cardinality(DOMAIN fs) = MaxCollide

(* the observer is running or being stopped *)
Watching == pc \in {"watch", "watchdead", "stopping"}

(* C13: in watch mode at most one pipeline is in flight; the event taken
   up is the oldest one waiting and events arrive at the end of the queue;
   and the move that ends a pipeline overwrites no file: the files before
   it are the files after it, so no two events end at one final path. *)
C13_WatchSerialized ==
    [][ Watching =>
          /\ Len(cur) <= 1 /\ Len(cur') <= 1
          /\ queue' # queue =>
                \/ queue # <<>> /\ queue' = Tail(queue)
                \/ queue' = <<>>
                \/ Len(queue') = Len(queue) + 1 /\ SubSeq(queue', 1, Len(queue)) = queue
          /\ Len(cur') > Len(cur) =>
                /\ queue' = Tail(queue)
                /\ cur'[Len(cur')].src = Head(queue).src_path
                /\ cur'[Len(cur')].final \notin DOMAIN fs
          /\ Len(cur') < Len(cur) =>
                /\ {fs'[q].id : q \in DOMAIN fs'} = FileIds
                /\ \A q \in DOMAIN fs : InTarget(q) => q \in DOMAIN fs' /\ fs'[q] = fs[q] ]_vars

(* two files that came to the same path of source_dir one after the other
   have both been moved by the watcher and are both in the target tree *)
C13_Witness ==
    /\ Watching
    /\ \E a, b \in DOMAIN fs :
          /\ a # b /\ InTarget(a) /\ InTarget(b)
          /\ fs[a].id[1] = fs[b].id[1]
          /\ {fs[a].id, fs[b].id} \subseteq hist.bywatch

(* C17: watch mode keeps processing created-events until the stop signal:
   as long as it has not arrived, the events that wait are taken up; once
   it has arrived the run returns; it does not return while a pipeline is
   in flight; and from the signal on no event is taken up. *)
C17_WatchShutdown ==
    /\ []<>(queue = <<>> \/ pc \in {"stopping", "idle"})
    /\ (pc = "stopping") ~> (pc = "idle")
    /\ [][ /\ (pc = "stopping" /\ cur # <<>>) => pc' = "stopping"
           /\ pc \in {"stopping", "idle"} => queue' \in {queue, <<>>}
           /\ pc \in {"stopping", "idle"} => Len(cur') <= Len(cur) ]_vars

====
